---- MODULE Spec2Model ----
(***************************************************************************)
(* Model of verify_respawn.py: a script that issues GET /events, prints    *)
(* the allow-listed events among the last 20, then issues GET /state       *)
(* inside a try/except and prints either the four state fields and a       *)
(* success message or an error message.                                    *)
(*                                                                         *)
(* The bot-control service is the environment: what it answers to each of  *)
(* the two requests is chosen when the answer is received.  Standard       *)
(* output is the sequence out of printed lines; every line is a triple of  *)
(* strings <<tag, a, b>>.                                                  *)
(***************************************************************************)
EXTENDS Integers, Sequences, FiniteSets, TLC

\* ---------------------------------------------------------------- bounds
\* Longest events list the service returns under Spec.
MaxEvents == 41
\* Longest events list the service returns under SpecState.
MaxShortEvents == 2

\* ------------------------------------------------------ program constants
\* events[-20:]
SliceLen == 20

\* The list literal of the membership test in the event loop.
AllowList == <<"death", "respawn_attempt", "spawn", "reconnect", "chat", "health">>

\* The keys the try body reads from the state object, in the order it reads them.
StateFields == <<"health", "food", "position", "gameMode">>

EventKeys == {"type", "timestamp", "data"}

VARIABLES
    pc,        \* position of the script
    inflight,  \* requests issued and not yet answered
    nReq,      \* requests issued so far, per endpoint
    evKind,    \* how GET /events ended: "none" until it has
    events,    \* the variable events
    slice,     \* the list events[-20:] the loop iterates over
    i,         \* index in slice of the next event of the loop
    stKind,    \* how GET /state ended: "none" until it has
    state,     \* the variable state
    k,         \* next statement of the try body, 1..5
    exc,       \* message of the exception caught by the handler
    out,       \* standard output, a sequence of lines
    exitCode   \* exit status; -1 while the script runs

vars == <<pc, inflight, nReq, evKind, events, slice, i, stKind, state, k, exc, out, exitCode>>

\* ------------------------------------------------------------ environment
\* An event object of the service.  keys are the keys present in the object;
\* a field whose key is absent is never read by the model.
Event(keys, type, n) == [keys |-> keys, type |-> type, timestamp |-> n, data |-> n]

AllowType(n) == AllowList[((n - 1) % Len(AllowList)) + 1]

\* Type of the n-th event of a list of length len built after pattern pat.
PatternType(pat, len, n) ==
    CASE pat = "allow" -> AllowType(n)
      [] pat = "other" -> "unknown"
      [] pat = "allow_then_other" -> IF 2 * n <= len THEN AllowType(n) ELSE "unknown"
      [] pat = "alternate" -> IF n % 2 = 1 THEN AllowType(n) ELSE "unknown"

Patterns == {"allow", "other", "allow_then_other", "alternate"}

\* Ways one event of the list can be malformed.
Malformed(kind, n) ==
    CASE kind = "no_type" -> Event({"timestamp", "data"}, "", n)
      [] kind = "allow_no_timestamp" -> Event({"type", "data"}, AllowType(n), n)
      [] kind = "allow_no_data" -> Event({"type", "timestamp"}, AllowType(n), n)
      [] kind = "other_no_timestamp" -> Event({"type", "data"}, "unknown", n)
      [] kind = "other_no_data" -> Event({"type", "timestamp"}, "unknown", n)

MalformedKinds ==
    {"no_type", "allow_no_timestamp", "allow_no_data", "other_no_timestamp", "other_no_data"}

\* The events list of length len after pattern pat whose p-th event (p = 0:
\* none) is malformed in the way kind.
EventList(len, pat, p, kind) ==
    [n \in 1..len |->
        IF n = p THEN Malformed(kind, n) ELSE Event(EventKeys, PatternType(pat, len, n), n)]

\* The events lists of at most max events: of every length, after every
\* pattern, with no malformed event or with one, at any place, of any kind.
EventListsUpTo(max) ==
    {EventList(len, pat, 0, "no_type") : len \in 0..max, pat \in Patterns}
    \cup
    UNION {{EventList(len, pat, p, kind) : p \in 1..len, kind \in MalformedKinds} :
            len \in 1..max, pat \in Patterns}

EventLists == EventListsUpTo(MaxEvents)

ShortEventLists == EventListsUpTo(MaxShortEvents)

\* A state object of the service.
StateObject(keys, health, food, mode) ==
    [keys |-> keys, health |-> health, food |-> food, position |-> <<0, 64, 0>>,
     gameMode |-> mode]

Range(s) == {s[n] : n \in 1..Len(s)}

StateObjects ==
    {StateObject(keys, 20, 18, "survival") : keys \in SUBSET Range(StateFields)}
    \cup {StateObject(Range(StateFields), 0, 0, "creative")}

\* Two of the state objects: a well-formed one and one without position.
SampleStateObjects ==
    {StateObject(Range(StateFields), 20, 18, "survival"),
     StateObject({"health", "food", "gameMode"}, 20, 18, "survival")}

NoState == StateObject({}, 0, 0, "")

\* The ways GET /events fails before events is assigned: the request raises,
\* the body is not JSON, the body has no 'events'.
EventsFailures == {"raise", "nonjson", "nokey"}

\* ---------------------------------------------------------------- program
\* s[-m:] as Python evaluates it: a negative start counts from the end and
\* is clamped to the beginning of the list.
PySliceLast(s, m) ==
    LET start0 == -m
        start1 == IF start0 < 0 THEN start0 + Len(s) ELSE start0
        start == IF start1 < 0 THEN 0 ELSE start1
    IN  SubSeq(s, start + 1, Len(s))

\* Fault variant of SliceOf: the first 20 events instead of the last 20.
SliceOfFirst(evs) == SubSeq(evs, 1, IF Len(evs) < SliceLen THEN Len(evs) ELSE SliceLen)

\* Fault variant of SliceOf: the allow-list applied before the slice is taken.
SliceOfFiltered(evs) ==
    PySliceLast(SelectSeq(evs, LAMBDA e :
        "type" \notin e.keys \/ \E n \in 1..Len(AllowList) : AllowList[n] = e.type), SliceLen)

\* events[-20:]
SliceOf(evs) == PySliceLast(evs, SliceLen)

\* event['type'] in [...]
InAllowList(type) == \E n \in 1..Len(AllowList) : AllowList[n] = type

\* Fault variant of KeysRead: 'timestamp' and 'data' read before the test.
KeysReadEager(event) == <<"type", "timestamp", "data">>

\* The keys the loop body reads from an event, in the order it reads them:
\* 'type' for the test, then 'timestamp', 'type' and 'data' when it passes.
KeysRead(event) ==
    IF "type" \notin event.keys THEN <<"type">>
    ELSE IF InAllowList(event.type) THEN <<"type", "timestamp", "type", "data">>
    ELSE <<"type">>

\* The loop body raises KeyError at the first key it reads that is absent.
EventRaises(event) == \E n \in 1..Len(KeysRead(event)) : KeysRead(event)[n] \notin event.keys

\* json.dumps(data, indent=2) of a number: its decimal text.
JsonDumps(data) == ToString(data)

\* f"{event_type}: {json.dumps(data, indent=2)}"
EventLine(event) == <<"event", event.type, JsonDumps(event.data)>>

Text(s) == <<"text", s, "">>

EventsHeader == <<Text("Recent bot events:"), Text("--------------------------------------------------")>>

StateHeader == <<Text("\n--------------------------------------------------"), Text("Current bot state:")>>

SuccessLine == Text("\nBot is alive and connected!")

ErrorLine(msg) == <<"text", "Error getting state: ", msg>>

DisconnectedLine == Text("Bot may be disconnected")

\* Fault variant of StateLine: the food line prints the health value.
StateLineCopyPaste(st, key) ==
    CASE key = "health" -> <<"Health: ", ToString(st.health), "/20">>
      [] key = "food" -> <<"Food: ", ToString(st.health), "/20">>
      [] key = "position" -> <<"Position: ", ToString(st.position), "">>
      [] key = "gameMode" -> <<"Game Mode: ", st.gameMode, "">>

\* The print statements of the try body that read the state object, by key.
StateLine(st, key) ==
    CASE key = "health" -> <<"Health: ", ToString(st.health), "/20">>
      [] key = "food" -> <<"Food: ", ToString(st.food), "/20">>
      [] key = "position" -> <<"Position: ", ToString(st.position), "">>
      [] key = "gameMode" -> <<"Game Mode: ", st.gameMode, "">>

\* Fault variant of TryBody: the success message printed first.
TryBodySuccessFirst == <<"success">> \o StateFields

\* Fault variant of TryBody: position printed before food.
TryBodySwapped == <<"health", "position", "food", "gameMode", "success">>

\* The statements of the try body after the fetch, in order: the name of the
\* key a statement reads, or "success" for the last print.
TryBody == StateFields \o <<"success">>

\* str(e) of the exception a failed fetch raises.
FetchError(kind) ==
    CASE kind = "raise" -> "ConnectionError"
      [] kind = "nonjson" -> "JSONDecodeError"
      [] kind = "notobject" -> "TypeError"

\* str(e) of KeyError(key)
KeyError(key) == "'" \o key \o "'"

\* Fault variant of Catches: a handler for request errors only.
CatchesRequestErrors(msg) == msg = "ConnectionError"

\* except Exception: every failure of the try body is an Exception.
Catches(msg) == TRUE

Init ==
    /\ pc = "start"
    /\ inflight = {}
    /\ nReq = [events |-> 0, state |-> 0]
    /\ evKind = "none"
    /\ events = <<>>
    /\ slice = <<>>
    /\ i = 0
    /\ stKind = "none"
    /\ state = NoState
    /\ k = 0
    /\ exc = ""
    /\ out = <<>>
    /\ exitCode = -1

\* An exception nothing catches: the interpreter exits with status 1.
Abort ==
    /\ pc' = "aborted"
    /\ exitCode' = 1

\* requests.get(f'{API_URL}/events') sends the request and blocks.
IssueEvents ==
    /\ pc = "start"
    /\ pc' = "wait_events"
    /\ inflight' = inflight \cup {"events"}
    /\ nReq' = [nReq EXCEPT !.events = @ + 1]
    /\ UNCHANGED <<evKind, events, slice, i, stKind, state, k, exc, out, exitCode>>

\* Fault variant of EventsFetchFails: the failure swallowed, the script going
\* on with no events.
EventsFetchFailsHandled ==
    /\ pc = "wait_events"
    /\ \E kind \in EventsFailures : evKind' = kind
    /\ inflight' = inflight \ {"events"}
    /\ pc' = "header"
    /\ UNCHANGED <<nReq, events, slice, i, stKind, state, k, exc, out, exitCode>>

\* The request fails, or its body is not JSON, or the body has no 'events'.
EventsFetchFails ==
    /\ pc = "wait_events"
    /\ \E kind \in EventsFailures : evKind' = kind
    /\ inflight' = inflight \ {"events"}
    /\ Abort
    /\ UNCHANGED <<nReq, events, slice, i, stKind, state, k, exc, out>>

\* events = response.json()['events'], a list.
EventsFetchOk(lists) ==
    /\ pc = "wait_events"
    /\ \E evs \in lists : events' = evs
    /\ evKind' = "ok"
    /\ inflight' = inflight \ {"events"}
    /\ pc' = "header"
    /\ UNCHANGED <<nReq, slice, i, stKind, state, k, exc, out, exitCode>>

\* events = response.json()['events'], a JSON value that is no list (null).
EventsFetchNotList ==
    /\ pc = "wait_events"
    /\ evKind' = "notlist"
    /\ inflight' = inflight \ {"events"}
    /\ pc' = "header"
    /\ UNCHANGED <<nReq, events, slice, i, stKind, state, k, exc, out, exitCode>>

\* print("Recent bot events:"); print("-" * 50)
PrintEventsHeader ==
    /\ pc = "header"
    /\ out' = out \o EventsHeader
    /\ pc' = "slice"
    /\ UNCHANGED <<inflight, nReq, evKind, events, slice, i, stKind, state, k, exc, exitCode>>

\* for event in events[-20:]: the slice is taken once; null[-20:] raises.
TakeSlice ==
    /\ pc = "slice"
    /\ IF evKind = "notlist"
       THEN Abort /\ UNCHANGED <<slice, i>>
       ELSE /\ slice' = SliceOf(events)
            /\ i' = 1
            /\ pc' = "loop"
            /\ UNCHANGED exitCode
    /\ UNCHANGED <<inflight, nReq, evKind, events, stKind, state, k, exc, out>>

\* One iteration of the loop body.
LoopBody ==
    /\ pc = "loop"
    /\ i <= Len(slice)
    /\ LET event == slice[i] IN
        IF EventRaises(event)
        THEN Abort /\ UNCHANGED <<i, out>>
        ELSE /\ out' = IF InAllowList(event.type) THEN Append(out, EventLine(event)) ELSE out
             /\ i' = i + 1
             /\ UNCHANGED <<pc, exitCode>>
    /\ UNCHANGED <<inflight, nReq, evKind, events, slice, stKind, state, k, exc>>

\* Fault variant of PrintStateHeader: the header not printed before the fetch.
PrintStateHeaderLate ==
    /\ pc = "loop"
    /\ i > Len(slice)
    /\ pc' = "try"
    /\ UNCHANGED <<inflight, nReq, evKind, events, slice, i, stKind, state, k, exc, out, exitCode>>

\* The loop is exhausted: print("\n" + "-" * 50); print("Current bot state:")
PrintStateHeader ==
    /\ pc = "loop"
    /\ i > Len(slice)
    /\ out' = out \o StateHeader
    /\ pc' = "try"
    /\ UNCHANGED <<inflight, nReq, evKind, events, slice, i, stKind, state, k, exc, exitCode>>

\* try: requests.get(f'{API_URL}/state') sends the request and blocks.
IssueState ==
    /\ pc = "try"
    /\ pc' = "wait_state"
    /\ inflight' = inflight \cup {"state"}
    /\ nReq' = [nReq EXCEPT !.state = @ + 1]
    /\ UNCHANGED <<evKind, events, slice, i, stKind, state, k, exc, out, exitCode>>

\* An exception raised in the try body: caught by the handler, or not.
Raise(msg) ==
    IF Catches(msg)
    THEN exc' = msg /\ pc' = "except" /\ UNCHANGED exitCode
    ELSE Abort /\ UNCHANGED exc

\* Fault variant of StateFetchFails: the request tried again after a failure.
StateFetchFailsRetry ==
    /\ pc = "wait_state"
    /\ \E kind \in {"raise", "nonjson"} : stKind' = kind
    /\ inflight' = inflight \ {"state"}
    /\ pc' = "try"
    /\ UNCHANGED <<nReq, evKind, events, slice, i, state, k, exc, out, exitCode>>

\* The request fails, or its body is not JSON.
StateFetchFails ==
    /\ pc = "wait_state"
    /\ \E kind \in {"raise", "nonjson"} :
          /\ stKind' = kind
          /\ Raise(FetchError(kind))
    /\ inflight' = inflight \ {"state"}
    /\ UNCHANGED <<nReq, evKind, events, slice, i, state, k, out>>

\* state = response.json(): a JSON object, or a JSON value that is no object.
StateFetchOk(objects) ==
    /\ pc = "wait_state"
    /\ \/ \E st \in objects : state' = st /\ stKind' = "ok"
       \/ state' = NoState /\ stKind' = "notobject"
    /\ inflight' = inflight \ {"state"}
    /\ k' = 1
    /\ pc' = "fields"
    /\ UNCHANGED <<nReq, evKind, events, slice, i, exc, out, exitCode>>

\* One statement of the try body after the fetch: a print that reads a key of
\* the state object, or the print of the success message.  The script ends
\* after the last one.
TryStatement ==
    /\ pc = "fields"
    /\ LET stmt == TryBody[k]
           reads == stmt # "success"
       IN  IF reads /\ stKind = "notobject"
           THEN Raise(FetchError(stKind)) /\ UNCHANGED <<k, out>>
           ELSE IF reads /\ stmt \notin state.keys
           THEN Raise(KeyError(stmt)) /\ UNCHANGED <<k, out>>
           ELSE /\ out' = Append(out, IF reads THEN StateLine(state, stmt) ELSE SuccessLine)
                /\ IF k < Len(TryBody)
                   THEN k' = k + 1 /\ UNCHANGED <<pc, exitCode>>
                   ELSE pc' = "done" /\ exitCode' = 0 /\ UNCHANGED k
                /\ UNCHANGED exc
    /\ UNCHANGED <<inflight, nReq, evKind, events, slice, i, stKind, state>>

\* except Exception as e: the two prints; the script then ends.
HandleException ==
    /\ pc = "except"
    /\ out' = out \o <<ErrorLine(exc), DisconnectedLine>>
    /\ pc' = "done"
    /\ exitCode' = 0
    /\ UNCHANGED <<inflight, nReq, evKind, events, slice, i, stKind, state, k, exc>>

\* The script, with the answers of the service drawn from lists and objects.
Step(lists, objects) ==
    \/ IssueEvents
    \/ EventsFetchFails
    \/ EventsFetchOk(lists)
    \/ EventsFetchNotList
    \/ PrintEventsHeader
    \/ TakeSlice
    \/ LoopBody
    \/ PrintStateHeader
    \/ IssueState
    \/ StateFetchFails
    \/ StateFetchOk(objects)
    \/ TryStatement
    \/ HandleException

\* Every events list up to MaxEvents events, two state objects.
Next == Step(EventLists, SampleStateObjects)

Spec == Init /\ [][Next]_vars

\* Every state object, the events lists up to MaxShortEvents events.
NextState == Step(ShortEventLists, StateObjects)

SpecState == Init /\ [][NextState]_vars

\* ----------------------------------------------------------------- claims
\* What the claims are stated with, written from the claims' words and not
\* from the operators of the program above.
AllowedTypes == {"death", "respawn_attempt", "spawn", "reconnect", "chat", "health"}

Terminated == pc \in {"done", "aborted"}

\* The loop is exhausted and the script has gone on to the state part.
EventsPhaseCompleted == pc \in {"try", "wait_state", "fields", "except", "done"}

EventLinesPrinted == SelectSeq(out, LAMBDA l : l[1] = "event")

\* Positions in evs of its last 20 events (all of them when there are fewer).
LastTwenty(evs) == {n \in 1..Len(evs) : n > Len(evs) - 20}

\* The whole list when it has at most 20 events, its last 20 events otherwise.
ExpectedSlice(evs) ==
    IF Len(evs) <= 20 THEN evs ELSE [n \in 1..20 |-> evs[Len(evs) - 20 + n]]

Allowed(e) == "type" \in e.keys /\ e.type \in AllowedTypes

\* One line per allow-listed event of evs, in the order of evs.
LinesOf(evs) ==
    LET kept == SelectSeq(evs, Allowed)
    IN  [n \in 1..Len(kept) |-> <<"event", kept[n].type, ToString(kept[n].data)>>]

IsSuccess(l) == l = <<"text", "\nBot is alive and connected!", "">>
IsError(l) == l[1] = "text" /\ l[2] = "Error getting state: "
IsStateLine(l) == l[1] \in {"Health: ", "Food: ", "Position: ", "Game Mode: "}
Printed(P(_)) == \E n \in 1..Len(out) : P(out[n])

StateHeaderPrinted == \E n \in 1..Len(out) : out[n] = <<"text", "Current bot state:", "">>

AllStateKeys == {"health", "food", "position", "gameMode"}

\* The state fetch has ended and has failed: the request raised, the body was
\* not JSON or not an object, or the object lacks one of the four fields.
StateFetchFailed ==
    \/ stKind \in {"raise", "nonjson", "notobject"}
    \/ stKind = "ok" /\ state.keys # AllStateKeys

\* C1: for an events list of any length the lines printed once the loop is
\* exhausted are exactly one line per allow-listed event of the whole list
\* (length <= 20) or of its last 20 events (length > 20), in the order of
\* the list; and at no time is an event before the last 20 printed.
C1_LastTwentyPrinted ==
    /\ (evKind = "ok" /\ EventsPhaseCompleted) =>
          EventLinesPrinted = LinesOf(ExpectedSlice(events))
    /\ LET last == LinesOf(ExpectedSlice(events))
       IN  \A n \in 1..Len(out) :
              out[n][1] = "event" => \E m \in 1..Len(last) : last[m] = out[n]

\* C1 witness: a completed loop over a list of more than 20 events whose
\* event just before the last 20 is allow-listed, and lines were printed.
C1_Witness ==
    /\ evKind = "ok" /\ EventsPhaseCompleted
    /\ Len(events) > 20
    /\ Allowed(events[Len(events) - 20])
    /\ Len(EventLinesPrinted) > 0

\* C2: no line is ever printed for an event whose type is outside the
\* allow-list, and once the loop is exhausted the number of event lines is
\* the number of allow-listed events among the last 20 of the list: events
\* of other types take places of the slice.
C2_FilterAfterSlice ==
    /\ \A n \in 1..Len(out) : out[n][1] = "event" => out[n][2] \in AllowedTypes
    /\ (evKind = "ok" /\ EventsPhaseCompleted) =>
          Len(EventLinesPrinted) =
              Cardinality({n \in LastTwenty(events) : Allowed(events[n])})

\* C2 witness: the list holds 20 or more allow-listed events, the loop is
\* exhausted and no event line was printed.
C2_Witness ==
    /\ evKind = "ok" /\ EventsPhaseCompleted
    /\ Cardinality({n \in 1..Len(events) : Allowed(events[n])}) >= 20
    /\ Len(EventLinesPrinted) = 0

\* C3: when the state fetch fails in any way the script does not abort, can
\* always take a step until it is done, and ends with exit status 0 and an
\* output whose last two lines are the error message and the disconnect note.
C3_StateFailureCaught ==
    StateFetchFailed =>
        /\ pc # "aborted"
        /\ exitCode # 1
        /\ pc # "done" => ENABLED Next
        /\ pc = "done" =>
              /\ exitCode = 0
              /\ Len(out) >= 2
              /\ IsError(out[Len(out) - 1])
              /\ out[Len(out)] = <<"text", "Bot may be disconnected", "">>

\* C3 witness: a finished run whose state object lacked position.
C3_Witness ==
    /\ pc = "done"
    /\ stKind = "ok"
    /\ "position" \notin state.keys
    /\ {"health", "food"} \subseteq state.keys

\* C4: when the events fetch fails (the request raises, the body is not
\* JSON, the body has no 'events') the script has aborted with a non-zero
\* exit status, nothing was printed and GET /state was not issued.
C4_EventsFailureAborts ==
    evKind \in {"raise", "nonjson", "nokey"} =>
        /\ pc = "aborted"
        /\ exitCode # 0 /\ exitCode # -1
        /\ out = <<>>
        /\ nReq.state = 0
        /\ "state" \notin inflight

\* C4 witness: the body of the events response had no 'events'.
C4_Witness == evKind = "nokey" /\ pc = "aborted"

\* The four state lines and the success message a well-formed object gives.
ExpectedStateOutput(st) ==
    << <<"Health: ", ToString(st.health), "/20">>,
       <<"Food: ", ToString(st.food), "/20">>,
       <<"Position: ", ToString(st.position), "">>,
       <<"Game Mode: ", st.gameMode, "">>,
       <<"text", "\nBot is alive and connected!", "">> >>

\* C5: with a state object that has all four fields the finished run's
\* output ends with the four state lines, in order and with the values of
\* the object, and the success message; the error message is never printed.
C5_WellFormedState ==
    (stKind = "ok" /\ state.keys = AllStateKeys) =>
        /\ ~Printed(IsError)
        /\ pc # "except"
        /\ pc = "done" =>
              /\ Len(out) >= 5
              /\ SubSeq(out, Len(out) - 4, Len(out)) = ExpectedStateOutput(state)

\* C5 witness: a finished run with a well-formed object of health 0.
C5_Witness ==
    /\ pc = "done"
    /\ stKind = "ok"
    /\ state.keys = AllStateKeys
    /\ state.health = 0

\* C6 as stated: every run makes exactly two requests, one per endpoint.
C6_ExactlyTwoRequests ==
    /\ nReq.events <= 1
    /\ nReq.state <= 1
    /\ Terminated => (nReq.events = 1 /\ nReq.state = 1)

\* C6 as amended: no endpoint is requested twice; a run that reaches its
\* end made one request per endpoint, a run that aborted made the request
\* for the events only.
C6_AtMostTwoRequests ==
    /\ nReq.events <= 1
    /\ nReq.state <= 1
    /\ pc = "done" => (nReq.events = 1 /\ nReq.state = 1)
    /\ pc = "aborted" => (nReq.events = 1 /\ nReq.state = 0)

\* C6 witness: a finished run whose state request failed.
C6_Witness == pc = "done" /\ stKind = "raise" /\ nReq.state = 1

\* C7: at most one request is outstanding; GET /state is issued only after
\* GET /events was answered, events was assigned, every event of the slice
\* went through the loop and the state header was printed; so a finished
\* run's output has the header whatever the state fetch gave.
C7_Sequential ==
    /\ Cardinality(inflight) <= 1
    /\ nReq.state > 0 =>
          /\ evKind = "ok"
          /\ "events" \notin inflight
          /\ i = Len(slice) + 1
          /\ EventLinesPrinted = LinesOf(ExpectedSlice(events))
          /\ StateHeaderPrinted
    /\ pc = "done" => StateHeaderPrinted

\* C7 witness: GET /state outstanding after a loop over 20 events.
C7_Witness == pc = "wait_state" /\ inflight = {"state"} /\ Len(events) >= 20

\* An event of the last 20 that makes the loop body fail: it has no type,
\* or an allow-listed type and no timestamp or no data.
BadInSlice(evs, n) ==
    /\ n > Len(evs) - 20
    /\ \/ "type" \notin evs[n].keys
       \/ /\ evs[n].type \in AllowedTypes
          /\ ("timestamp" \notin evs[n].keys \/ "data" \notin evs[n].keys)

SomeBadInSlice(evs) == \E n \in 1..Len(evs) : BadInSlice(evs, n)

FirstBad(evs) == CHOOSE n \in 1..Len(evs) :
    BadInSlice(evs, n) /\ \A m \in 1..(n - 1) : ~BadInSlice(evs, m)

\* C8: with an events list, the script aborts in the loop exactly when an
\* event of the last 20 is malformed in a way the loop body reads; it has
\* then printed the lines of the slice's events before that one and never
\* issues GET /state.  Any other malformed event changes nothing: the loop
\* is exhausted and prints what C1 says.
C8_MalformedEvent ==
    evKind = "ok" =>
        /\ pc = "aborted" =>
              /\ SomeBadInSlice(events)
              /\ EventLinesPrinted =
                    LinesOf(SubSeq(events, Len(events) - Len(slice) + 1, FirstBad(events) - 1))
              /\ Len(slice) = Cardinality(LastTwenty(events))
        /\ SomeBadInSlice(events) =>
              /\ ~EventsPhaseCompleted
              /\ nReq.state = 0
        /\ (~SomeBadInSlice(events) /\ pc \notin {"header", "slice"}) =>
              /\ pc # "aborted"
              /\ pc = "loop" => ENABLED Next

\* C8 witness: the script aborted in the loop after it had printed lines.
C8_Witness ==
    /\ evKind = "ok"
    /\ pc = "aborted"
    /\ Len(EventLinesPrinted) > 0

\* C9: the success message and the error message are never both printed; a
\* finished run printed exactly one of them, an aborted run neither; and
\* the success message comes right after the four state lines.
C9_SuccessXorError ==
    /\ ~(Printed(IsSuccess) /\ Printed(IsError))
    /\ pc = "done" => (Printed(IsSuccess) \/ Printed(IsError))
    /\ pc = "aborted" => (~Printed(IsSuccess) /\ ~Printed(IsError))
    /\ \A n \in 1..Len(out) :
          IsSuccess(out[n]) =>
              /\ n > 4
              /\ out[n - 4][1] = "Health: "
              /\ out[n - 3][1] = "Food: "
              /\ out[n - 2][1] = "Position: "
              /\ out[n - 1][1] = "Game Mode: "

\* C9 witness: a finished run that printed the success message.
C9_Witness == pc = "done" /\ Printed(IsSuccess)

\* The fields before the first missing one, in the order health, food,
\* position, gameMode.
FieldsBeforeMissing(keys) ==
    LET order == <<"health", "food", "position", "gameMode">>
        first == CHOOSE n \in 1..4 : order[n] \notin keys /\ \A m \in 1..(n - 1) : order[m] \in keys
    IN  SubSeq(order, 1, first - 1)

\* C10: when the state object lacks a field, the state lines printed when
\* the handler runs, and in the finished run, are the lines of the fields
\* before the first missing one, in order, and no other.
C10_PartialStateOutput ==
    (stKind = "ok" /\ state.keys # AllStateKeys /\ pc \in {"except", "done"}) =>
        LET fields == FieldsBeforeMissing(state.keys)
            lines == SelectSeq(out, IsStateLine)
        IN  lines = [n \in 1..Len(fields) |-> ExpectedStateOutput(state)[n]]

\* C10 witness: a finished run whose object lacked gameMode only.
C10_Witness ==
    /\ pc = "done"
    /\ stKind = "ok"
    /\ state.keys = {"health", "food", "position"}
    /\ Len(SelectSeq(out, IsStateLine)) = 3

====
